---- MODULE Spec2Model ----
(***************************************************************************)
(* Project store of src/src/context/ProjectContext.tsx (ProjectProvider,   *)
(* the later of the two versions in the file, lines 496-1130).             *)
(*                                                                         *)
(* The store is a set of React state cells.  A handler reads the cells     *)
(* through the closure of the last render (variable rendered) and writes   *)
(* them either with a plain value (setX(v)) or with a functional updater   *)
(* (setX(prev => ...)), which is applied to the cell's latest value.       *)
(* Timestamps (createdAt, updatedAt, lastModified) and the fields no       *)
(* handler reads or writes (name, milestones, teams, budget) are left out. *)
(***************************************************************************)
EXTENDS Integers, Sequences, FiniteSets, TLC

VARIABLES projects, currentProject, undoStack, redoStack, projectState,
          nextId, snapshots, inflight, initialized, rendered, last, probe,
          stepsLeft, timers, dirtyAge

\* projects, currentProject, undoStack, redoStack, projectState: the state
\*   cells of ProjectProvider; null is NoProject.
\* nextId: the id createEmptyProject gives to the next project.
\* snapshots: the snapshot store of the persistence backend.
\* inflight: the file and snapshot requests a handler is awaiting.
\* initialized: the mount effect has run.
\* rendered: the values of the cells the handlers of the last render closed
\*   over.
\* last: the last event, with the save state and stack depths before it.
\* probe: the collections before the first undo() of a round trip and the
\*   number of undo() and redo() calls since.
\* stepsLeft: the events the run may still take.
\* timers: the interval timers of the autosave effect that are armed, each
\*   with the project and the flag its callback closed over and the time
\*   left until it fires.
\* dirtyAge: the time the active project has had unsaved changes of which
\*   no snapshot was written.
storeVars == <<projects, currentProject, undoStack, redoStack, projectState>>
vars == <<projects, currentProject, undoStack, redoStack, projectState,
          nextId, snapshots, inflight, initialized, rendered, last, probe,
          stepsLeft, timers, dirtyAge>>

(***************************************************************************)
(* Bounds of the model.                                                    *)
(***************************************************************************)
\* The cap of the undo stack: 50 in the source (slice(0, 49) keeps cap - 1
\* entries), scaled down so that histories longer than the cap are explored.
UndoCap == 2
\* Task ids callers use are 1..MaxTaskId.
MaxTaskId == 2
\* Projects createEmptyProject can make; their ids are 1..MaxProjects.
MaxProjects == 1
\* File and snapshot operations that may be awaiting the backend at once.
MaxInflight == 1
\* Events of one run.
MaxSteps == 5
\* Events of one run of the undo/redo round trip.
MaxRoundTripSteps == 8
\* AUTO_SAVE_INTERVAL (line 548: ten minutes), in units of the model's clock.
AutosaveInterval == 2
\* Events and clock ticks of one run of the timed autosave.
MaxTimedSteps == 6

TaskIds == 1..MaxTaskId
TaskVals == {0, 100}
ResourceIds == {1}
ResourceVals == {0, 1}
CostIds == {1}
RiskIds == {1}
SampleId == 0
NoId == 0 - 1

\* An entity (task, resource, cost record, risk): an id and its fields, which
\* the store copies wholesale; for a task v is its completion percentage.
Entity(i, x) == [id |-> i, v |-> x]
NoEntity == Entity(NoId, 0)

\* null in the place of a Project.
NoProject == [id |-> NoId, progress |-> 0, tasks |-> <<>>, resources |-> <<>>,
              costs |-> <<>>, risks |-> <<>>]

(***************************************************************************)
(* Array helpers, as the JavaScript methods the handlers use.              *)
(***************************************************************************)
RECURSIVE FilterOutId(_, _)
\* arr.filter(e => e.id !== id)
FilterOutId(arr, id) ==
  IF arr = <<>> THEN <<>>
  ELSE IF Head(arr).id = id THEN FilterOutId(Tail(arr), id)
       ELSE <<Head(arr)>> \o FilterOutId(Tail(arr), id)

\* arr.map(e => e.id === id ? repl : e)
MapReplace(arr, id, repl) ==
  [i \in DOMAIN arr |-> IF arr[i].id = id THEN repl ELSE arr[i]]

\* arr.find(e => e.id === id), NoEntity for undefined
FindById(arr, id) ==
  IF \E i \in DOMAIN arr : arr[i].id = id
  THEN arr[CHOOSE i \in DOMAIN arr :
             arr[i].id = id /\ \A j \in DOMAIN arr : arr[j].id = id => i <= j]
  ELSE NoEntity

\* arr.slice(0, n) for n >= 0
SliceTo(arr, n) == SubSeq(arr, 1, IF Len(arr) < n THEN Len(arr) ELSE n)

\* arr.slice(0, -1)
DropLast(arr) == IF Len(arr) = 0 THEN <<>> ELSE SubSeq(arr, 1, Len(arr) - 1)

IdsOf(arr) == {arr[i].id : i \in DOMAIN arr}

RECURSIVE SumV(_)
SumV(arr) == IF arr = <<>> THEN 0 ELSE Head(arr).v + SumV(Tail(arr))

(***************************************************************************)
(* Collaborators that are not part of the source file.                     *)
(***************************************************************************)
\* utils/projectUtils calculateProjectProgress: the mean completion of the
\* tasks, rounded, 0 for no tasks.
calculateProjectProgress(tasks) ==
  IF Len(tasks) = 0 THEN 0
  ELSE (2 * SumV(tasks) + Len(tasks)) \div (2 * Len(tasks))

\* utils/projectUtils createEmptyProject: a project with a new id and empty
\* collections.
createEmptyProject(id) == [NoProject EXCEPT !.id = id]

\* data/sampleProject: the project the store is constructed with.
sampleProject == [id |-> SampleId, progress |-> 0,
                  tasks |-> <<Entity(1, 0)>>, resources |-> <<>>,
                  costs |-> <<>>, risks |-> <<>>]

\* utils/stateMachine transition(prev, event).
transition(prev, event) ==
  CASE event = "initialize" ->
         [prev EXCEPT !.currentState = "UNTITLED", !.hasUnsavedChanges = FALSE,
                      !.isUntitled = TRUE]
    [] event = "edit" ->
         [prev EXCEPT !.currentState = "DIRTY", !.hasUnsavedChanges = TRUE]
    [] event = "save" ->
         [prev EXCEPT !.currentState = "SAVED", !.hasUnsavedChanges = FALSE,
                      !.isUntitled = FALSE]
    [] event = "restoreSnapshot" ->
         [prev EXCEPT !.currentState = "SAVED", !.hasUnsavedChanges = FALSE,
                      !.isUntitled = FALSE, !.openedFrom = "snapshot"]
    [] OTHER -> prev

(***************************************************************************)
(* Persistence backend (utils/fileSystem), not part of the source file:    *)
(* snapshots are kept by name, one per project id, and the name of the     *)
(* most recent one is remembered.                                          *)
(***************************************************************************)
ProjectIds == {SampleId} \cup (1..MaxProjects)

NoSnapshots == [byName |-> [i \in ProjectIds |-> NoProject], latest |-> NoId]

\* saveAutoSnapshot(package)
saveAutoSnapshot(store, project) ==
  [byName |-> [store.byName EXCEPT ![project.id] = project],
   latest |-> project.id]

\* loadSnapshot(name): the package, or null (NoProject) when there is none
loadSnapshot(store, name) ==
  IF name \in DOMAIN store.byName THEN store.byName[name] ELSE NoProject

\* getLatestSnapshot(): the name of the most recent snapshot, or null (NoId)
getLatestSnapshot(store) == store.latest

\* A snapshot an earlier session may have left behind.
OldSnapshot == [sampleProject EXCEPT !.tasks = <<Entity(1, 100)>>,
                                     !.progress = 100]

\* A backend whose most recent snapshot is listed but cannot be loaded:
\* getLatestSnapshot() gives its name and loadSnapshot(name) gives null.
UnreadableSnapshot == [NoSnapshots EXCEPT !.latest = SampleId]

\* The packages a user-supplied file can hold.
FileProjects == {[sampleProject EXCEPT !.tasks = <<Entity(2, 100)>>,
                                       !.progress = 100]}

(***************************************************************************)
(* Initial state: the useState initialisers (lines 553-564).               *)
(***************************************************************************)
InitialProjectState ==
  [currentState |-> "UNTITLED", hasUnsavedChanges |-> FALSE,
   isUntitled |-> TRUE, autosaveTimer |-> "active", openedFrom |-> "null"]

\* A timer armed by the autosave effect (line 569): the project and the flag
\* of the render that armed it, and a full interval to go.
Timer(project, flag) ==
  [project |-> project, hasUnsavedChanges |-> flag, due |-> AutosaveInterval]

\* What the handlers made by the last render see.
Closure(cp, ps, us, rs, st) ==
  [currentProject |-> cp, projects |-> ps, undoStack |-> us, redoStack |-> rs,
   hasUnsavedChanges |-> st.hasUnsavedChanges,
   autosaveTimer |-> st.autosaveTimer]

NoProbe == [phase |-> "edit", tasks |-> {}, resources |-> {}, undos |-> 0,
            redos |-> 0]

InitStore ==
  /\ projects = <<sampleProject>>
  /\ currentProject = sampleProject
  /\ undoStack = <<>>
  /\ redoStack = <<>>
  /\ projectState = InitialProjectState
  /\ nextId = 1
  /\ snapshots \in {NoSnapshots, saveAutoSnapshot(NoSnapshots, OldSnapshot),
                    UnreadableSnapshot}
  /\ inflight = <<>>
  /\ initialized = FALSE
  /\ rendered = Closure(sampleProject, <<sampleProject>>, <<>>, <<>>,
                        InitialProjectState)
  /\ last = [op |-> "construct", pushed |-> FALSE,
             prev |-> InitialProjectState,
             undoLen |-> 0, redoLen |-> 0]
  /\ probe = NoProbe
  /\ timers = {Timer(sampleProject, FALSE)}
  /\ dirtyAge = 0

Init == InitStore /\ stepsLeft = MaxSteps

(***************************************************************************)
(* Handlers.  Each is the body of the callback of the same name; it reads  *)
(* the closure (rendered) and sets the state cells.                        *)
(***************************************************************************)
\* updateProject that keeps the progress of the project it is given.
updateProject_StaleProgress(updatedProject) ==
  /\ projects' = [i \in DOMAIN projects |->
                    IF projects[i].id = updatedProject.id
                    THEN updatedProject ELSE projects[i]]
  /\ currentProject' = updatedProject
  /\ projectState' = transition(projectState, "edit")

\* updateProject that leaves the save state alone.
updateProject_NoEdit(updatedProject) ==
  LET finalProject ==
        [updatedProject EXCEPT
           !.progress = calculateProjectProgress(updatedProject.tasks)]
  IN /\ projects' = [i \in DOMAIN projects |->
                       IF projects[i].id = finalProject.id
                       THEN finalProject ELSE projects[i]]
     /\ currentProject' = finalProject
     /\ UNCHANGED projectState

\* updateProject (lines 617-634)
updateProject(updatedProject) ==
  LET finalProject ==
        [updatedProject EXCEPT
           !.progress = calculateProjectProgress(updatedProject.tasks)]
  IN /\ projects' = [i \in DOMAIN projects |->
                       IF projects[i].id = finalProject.id
                       THEN finalProject ELSE projects[i]]
     /\ currentProject' = finalProject
     /\ projectState' = transition(projectState, "edit")

\* pushUndo that does not truncate the stack.
pushUndo_NoCap(item) ==
  /\ undoStack' = Append(undoStack, item)
  /\ redoStack' = <<>>

\* pushUndo that keeps the redo stack.
pushUndo_KeepRedo(item) ==
  /\ undoStack' = Append(SliceTo(undoStack, UndoCap - 1), item)
  /\ UNCHANGED redoStack

\* pushUndo (lines 945-948)
pushUndo(item) ==
  /\ undoStack' = Append(SliceTo(undoStack, UndoCap - 1), item)
  /\ redoStack' = <<>>

UndoItem(type, targetId, beforeState, afterState) ==
  [type |-> type, targetId |-> targetId, beforeState |-> beforeState,
   afterState |-> afterState]

\* addTask without the return on a missing project.
addTask_NoGuard(task) ==
  /\ pushUndo(UndoItem("add-task", task.id, NoEntity, task))
  /\ updateProject([rendered.currentProject EXCEPT !.tasks = Append(@, task)])

\* addTask (lines 652-669)
addTask(task) ==
  IF rendered.currentProject = NoProject THEN UNCHANGED storeVars
  ELSE /\ pushUndo(UndoItem("add-task", task.id, NoEntity, task))
       /\ updateProject([rendered.currentProject EXCEPT
                           !.tasks = Append(@, task)])

\* updateTask (lines 672-692)
updateTask(updatedTask) ==
  IF rendered.currentProject = NoProject THEN UNCHANGED storeVars
  ELSE LET oldTask == FindById(rendered.currentProject.tasks, updatedTask.id)
       IN /\ IF oldTask # NoEntity
             THEN pushUndo(UndoItem("update-task", updatedTask.id, oldTask,
                                    updatedTask))
             ELSE UNCHANGED <<undoStack, redoStack>>
          /\ updateProject([rendered.currentProject EXCEPT
                              !.tasks = MapReplace(@, updatedTask.id,
                                                   updatedTask)])

\* deleteTask that returns when no task has the id.
deleteTask_SkipMissing(taskId) ==
  IF rendered.currentProject = NoProject
       \/ FindById(rendered.currentProject.tasks, taskId) = NoEntity
  THEN UNCHANGED storeVars
  ELSE /\ pushUndo(UndoItem("delete-task", taskId,
                            FindById(rendered.currentProject.tasks, taskId),
                            NoEntity))
       /\ updateProject([rendered.currentProject EXCEPT
                           !.tasks = FilterOutId(@, taskId)])

\* deleteTask (lines 695-715)
deleteTask(taskId) ==
  IF rendered.currentProject = NoProject THEN UNCHANGED storeVars
  ELSE LET oldTask == FindById(rendered.currentProject.tasks, taskId)
       IN /\ IF oldTask # NoEntity
             THEN pushUndo(UndoItem("delete-task", taskId, oldTask, NoEntity))
             ELSE UNCHANGED <<undoStack, redoStack>>
          /\ updateProject([rendered.currentProject EXCEPT
                              !.tasks = FilterOutId(@, taskId)])

\* addResource (lines 718-735)
addResource(resource) ==
  IF rendered.currentProject = NoProject THEN UNCHANGED storeVars
  ELSE /\ pushUndo(UndoItem("add-resource", resource.id, NoEntity, resource))
       /\ updateProject([rendered.currentProject EXCEPT
                           !.resources = Append(@, resource)])

\* updateResource (lines 738-758)
updateResource(updatedResource) ==
  IF rendered.currentProject = NoProject THEN UNCHANGED storeVars
  ELSE LET oldResource == FindById(rendered.currentProject.resources,
                                   updatedResource.id)
       IN /\ IF oldResource # NoEntity
             THEN pushUndo(UndoItem("update-resource", updatedResource.id,
                                    oldResource, updatedResource))
             ELSE UNCHANGED <<undoStack, redoStack>>
          /\ updateProject([rendered.currentProject EXCEPT
                              !.resources = MapReplace(@, updatedResource.id,
                                                       updatedResource)])

\* deleteResource that returns when no resource has the id.
deleteResource_SkipMissing(resourceId) ==
  IF rendered.currentProject = NoProject
       \/ FindById(rendered.currentProject.resources, resourceId) = NoEntity
  THEN UNCHANGED storeVars
  ELSE /\ pushUndo(UndoItem("delete-resource", resourceId,
                            FindById(rendered.currentProject.resources,
                                     resourceId),
                            NoEntity))
       /\ updateProject([rendered.currentProject EXCEPT
                           !.resources = FilterOutId(@, resourceId)])

\* deleteResource (lines 761-781)
deleteResource(resourceId) ==
  IF rendered.currentProject = NoProject THEN UNCHANGED storeVars
  ELSE LET oldResource == FindById(rendered.currentProject.resources,
                                   resourceId)
       IN /\ IF oldResource # NoEntity
             THEN pushUndo(UndoItem("delete-resource", resourceId, oldResource,
                                    NoEntity))
             ELSE UNCHANGED <<undoStack, redoStack>>
          /\ updateProject([rendered.currentProject EXCEPT
                              !.resources = FilterOutId(@, resourceId)])

\* addCost that takes part in the history as a fresh edit: it clears the
\* redo stack.
addCost_ClearsRedo(cost) ==
  IF rendered.currentProject = NoProject THEN UNCHANGED storeVars
  ELSE /\ updateProject([rendered.currentProject EXCEPT
                           !.costs = Append(@, cost)])
       /\ redoStack' = <<>>
       /\ UNCHANGED undoStack

\* addCost (lines 784-791)
addCost(cost) ==
  IF rendered.currentProject = NoProject THEN UNCHANGED storeVars
  ELSE /\ updateProject([rendered.currentProject EXCEPT
                           !.costs = Append(@, cost)])
       /\ UNCHANGED <<undoStack, redoStack>>

\* updateCost (lines 793-800)
updateCost(cost) ==
  IF rendered.currentProject = NoProject THEN UNCHANGED storeVars
  ELSE /\ updateProject([rendered.currentProject EXCEPT
                           !.costs = MapReplace(@, cost.id, cost)])
       /\ UNCHANGED <<undoStack, redoStack>>

\* deleteCost (lines 802-809)
deleteCost(id) ==
  IF rendered.currentProject = NoProject THEN UNCHANGED storeVars
  ELSE /\ updateProject([rendered.currentProject EXCEPT
                           !.costs = FilterOutId(@, id)])
       /\ UNCHANGED <<undoStack, redoStack>>

\* addRisk (lines 812-819)
addRisk(risk) ==
  IF rendered.currentProject = NoProject THEN UNCHANGED storeVars
  ELSE /\ updateProject([rendered.currentProject EXCEPT
                           !.risks = Append(@, risk)])
       /\ UNCHANGED <<undoStack, redoStack>>

\* updateRisk (lines 821-828)
updateRisk(risk) ==
  IF rendered.currentProject = NoProject THEN UNCHANGED storeVars
  ELSE /\ updateProject([rendered.currentProject EXCEPT
                           !.risks = MapReplace(@, risk.id, risk)])
       /\ UNCHANGED <<undoStack, redoStack>>

\* deleteRisk (lines 830-837)
deleteRisk(id) ==
  IF rendered.currentProject = NoProject THEN UNCHANGED storeVars
  ELSE /\ updateProject([rendered.currentProject EXCEPT
                           !.risks = FilterOutId(@, id)])
       /\ UNCHANGED <<undoStack, redoStack>>

\* createProject that keeps the undo stack.
createProjectOn_KeepHistory(prev) ==
  LET newProject == createEmptyProject(nextId)
  IN /\ projects' = Append(prev, newProject)
     /\ currentProject' = newProject
     /\ projectState' = transition(projectState, "initialize")
     /\ redoStack' = <<>>
     /\ nextId' = nextId + 1
     /\ UNCHANGED undoStack

\* createProject (lines 597-614), applied to the projects list prev
createProjectOn(prev) ==
  LET newProject == createEmptyProject(nextId)
  IN /\ projects' = Append(prev, newProject)
     /\ currentProject' = newProject
     /\ projectState' = transition(projectState, "initialize")
     /\ undoStack' = <<>>
     /\ redoStack' = <<>>
     /\ nextId' = nextId + 1

createProject == createProjectOn(projects)

RECURSIVE FilterOutProject(_, _)
\* prev.filter(p => p.id !== projectId)
FilterOutProject(arr, id) ==
  IF arr = <<>> THEN <<>>
  ELSE IF Head(arr).id = id THEN FilterOutProject(Tail(arr), id)
       ELSE <<Head(arr)>> \o FilterOutProject(Tail(arr), id)

\* deleteProject that leaves the deleted project active.
deleteProject_KeepActive(projectId) ==
  /\ projects' = FilterOutProject(projects, projectId)
  /\ UNCHANGED <<currentProject, undoStack, redoStack, projectState, nextId>>

\* deleteProject (lines 637-649)
deleteProject(projectId) ==
  LET remainingProjects == FilterOutProject(rendered.projects, projectId)
  IN IF rendered.currentProject.id = projectId
     THEN IF Len(remainingProjects) > 0
          THEN /\ projects' = FilterOutProject(projects, projectId)
               /\ currentProject' = remainingProjects[1]
               /\ UNCHANGED <<undoStack, redoStack, projectState, nextId>>
          ELSE createProjectOn(FilterOutProject(projects, projectId))
     ELSE /\ projects' = FilterOutProject(projects, projectId)
          /\ UNCHANGED <<currentProject, undoStack, redoStack, projectState,
                         nextId>>

\* saveProject that keeps the undo stack.
saveProject_KeepHistory ==
  IF rendered.currentProject = NoProject
  THEN UNCHANGED <<storeVars, snapshots>>
  ELSE /\ snapshots' = saveAutoSnapshot(snapshots, rendered.currentProject)
       /\ projectState' = transition(projectState, "save")
       /\ redoStack' = <<>>
       /\ UNCHANGED <<projects, currentProject, undoStack>>

\* saveProject (lines 840-876)
saveProject ==
  IF rendered.currentProject = NoProject
  THEN UNCHANGED <<storeVars, snapshots>>
  ELSE /\ snapshots' = saveAutoSnapshot(snapshots, rendered.currentProject)
       /\ projectState' = transition(projectState, "save")
       /\ undoStack' = <<>>
       /\ redoStack' = <<>>
       /\ UNCHANGED <<projects, currentProject>>

\* An inverse that leaves an added entity in the project.
undoApply_KeepAdded(project, lastAction) ==
  CASE lastAction.type = "update-task" ->
         [project EXCEPT !.tasks = MapReplace(@, lastAction.targetId,
                                              lastAction.beforeState)]
    [] lastAction.type = "delete-task" ->
         [project EXCEPT !.tasks = Append(@, lastAction.beforeState)]
    [] lastAction.type = "update-resource" ->
         [project EXCEPT !.resources = MapReplace(@, lastAction.targetId,
                                                  lastAction.beforeState)]
    [] lastAction.type = "delete-resource" ->
         [project EXCEPT !.resources = Append(@, lastAction.beforeState)]
    [] OTHER -> project

\* The inverse of an undo item against the project (switch of lines 962-1014)
undoApply(project, lastAction) ==
  CASE lastAction.type = "add-task" ->
         [project EXCEPT !.tasks = FilterOutId(@, lastAction.targetId)]
    [] lastAction.type = "update-task" ->
         [project EXCEPT !.tasks = MapReplace(@, lastAction.targetId,
                                              lastAction.beforeState)]
    [] lastAction.type = "delete-task" ->
         [project EXCEPT !.tasks = Append(@, lastAction.beforeState)]
    [] lastAction.type = "add-resource" ->
         [project EXCEPT !.resources = FilterOutId(@, lastAction.targetId)]
    [] lastAction.type = "update-resource" ->
         [project EXCEPT !.resources = MapReplace(@, lastAction.targetId,
                                                  lastAction.beforeState)]
    [] lastAction.type = "delete-resource" ->
         [project EXCEPT !.resources = Append(@, lastAction.beforeState)]

\* The forward operation of an undo item (switch of lines 1029-1081)
redoApply(project, lastAction) ==
  CASE lastAction.type = "add-task" ->
         [project EXCEPT !.tasks = Append(@, lastAction.afterState)]
    [] lastAction.type = "update-task" ->
         [project EXCEPT !.tasks = MapReplace(@, lastAction.targetId,
                                              lastAction.afterState)]
    [] lastAction.type = "delete-task" ->
         [project EXCEPT !.tasks = FilterOutId(@, lastAction.targetId)]
    [] lastAction.type = "add-resource" ->
         [project EXCEPT !.resources = Append(@, lastAction.afterState)]
    [] lastAction.type = "update-resource" ->
         [project EXCEPT !.resources = MapReplace(@, lastAction.targetId,
                                                  lastAction.afterState)]
    [] lastAction.type = "delete-resource" ->
         [project EXCEPT !.resources = FilterOutId(@, lastAction.targetId)]

\* undo that sets the project without going through updateProject.
undo_Silent ==
  IF Len(rendered.undoStack) = 0 \/ rendered.currentProject = NoProject
  THEN UNCHANGED storeVars
  ELSE LET lastAction == rendered.undoStack[Len(rendered.undoStack)]
           project == undoApply(rendered.currentProject, lastAction)
       IN /\ undoStack' = DropLast(undoStack)
          /\ redoStack' = Append(redoStack, lastAction)
          /\ projects' = [i \in DOMAIN projects |->
                            IF projects[i].id = project.id
                            THEN project ELSE projects[i]]
          /\ currentProject' = project
          /\ UNCHANGED projectState

\* undo (lines 950-1015)
undo ==
  IF Len(rendered.undoStack) = 0 \/ rendered.currentProject = NoProject
  THEN UNCHANGED storeVars
  ELSE LET lastAction == rendered.undoStack[Len(rendered.undoStack)]
       IN /\ undoStack' = DropLast(undoStack)
          /\ redoStack' = Append(redoStack, lastAction)
          /\ updateProject(undoApply(rendered.currentProject, lastAction))

\* redo without the early return on an empty redo stack.
redo_Unguarded ==
  IF rendered.currentProject = NoProject
  THEN UNCHANGED storeVars
  ELSE IF Len(rendered.redoStack) = 0
  THEN /\ updateProject(rendered.currentProject)
       /\ UNCHANGED <<undoStack, redoStack>>
  ELSE LET lastAction == rendered.redoStack[Len(rendered.redoStack)]
       IN /\ redoStack' = DropLast(redoStack)
          /\ undoStack' = Append(undoStack, lastAction)
          /\ updateProject(redoApply(rendered.currentProject, lastAction))

\* redo (lines 1017-1082)
redo ==
  IF Len(rendered.redoStack) = 0 \/ rendered.currentProject = NoProject
  THEN UNCHANGED storeVars
  ELSE LET lastAction == rendered.redoStack[Len(rendered.redoStack)]
       IN /\ redoStack' = DropLast(redoStack)
          /\ undoStack' = Append(undoStack, lastAction)
          /\ updateProject(redoApply(rendered.currentProject, lastAction))

(***************************************************************************)
(* File and snapshot operations: the handler runs up to its await, the     *)
(* request is in flight, and the rest of the handler runs when the backend *)
(* answers.  A request carries the package the backend was given or will   *)
(* answer with; NoProject stands for null or a rejected promise.           *)
(***************************************************************************)
Request(kind, pkg) == [kind |-> kind, pkg |-> pkg]

RemoveAt(seq, i) == SubSeq(seq, 1, i - 1) \o SubSeq(seq, i + 1, Len(seq))

\* exportProjectFile up to the await (lines 879-881)
exportProjectFileStart ==
  IF rendered.currentProject = NoProject THEN UNCHANGED inflight
  ELSE inflight' = Append(inflight, Request("export", rendered.currentProject))

\* openProjectFile up to the await (lines 886-887)
openProjectFileStart(pkg) == inflight' = Append(inflight, Request("open", pkg))

\* restoreSnapshot up to the await (lines 903-904)
restoreSnapshotStart(name) ==
  inflight' = Append(inflight, Request("restore", loadSnapshot(snapshots, name)))

\* The loaded project appended without the filter.
ReplaceOrInsert_Append(prev, project) == Append(prev, project)

\* setProjects(prev => [...prev.filter(p => p.id !== pkg.project.id), pkg.project])
ReplaceOrInsert(prev, project) ==
  Append(FilterOutProject(prev, project.id), project)

\* exportProjectFile after the await (line 882)
exportProjectFileDone(req) ==
  /\ projectState' = transition(projectState, "save")
  /\ UNCHANGED <<projects, currentProject, undoStack, redoStack>>

\* openProjectFile that does not make the loaded project the active one.
openProjectFileDone_NoActivate(req) ==
  /\ projects' = ReplaceOrInsert(projects, req.pkg)
  /\ projectState' = transition(projectState, "save")
  /\ UNCHANGED <<currentProject, undoStack, redoStack>>

\* openProjectFile after the await (lines 888-899)
openProjectFileDone(req) ==
  /\ currentProject' = req.pkg
  /\ projects' = ReplaceOrInsert(projects, req.pkg)
  /\ projectState' = transition(projectState, "save")
  /\ UNCHANGED <<undoStack, redoStack>>

\* restoreSnapshot that forgets the transition.
restoreSnapshotDone_NoTransition(req) ==
  IF req.pkg = NoProject THEN UNCHANGED storeVars
  ELSE /\ currentProject' = req.pkg
       /\ projects' = ReplaceOrInsert(projects, req.pkg)
       /\ UNCHANGED <<undoStack, redoStack, projectState>>

\* restoreSnapshot without the return on a null package.
restoreSnapshotDone_NoNullCheck(req) ==
  /\ currentProject' = req.pkg
  /\ projects' = ReplaceOrInsert(projects, req.pkg)
  /\ projectState' = transition(projectState, "restoreSnapshot")
  /\ UNCHANGED <<undoStack, redoStack>>

\* restoreSnapshot after the await (lines 905-917)
restoreSnapshotDone(req) ==
  IF req.pkg = NoProject THEN UNCHANGED storeVars
  ELSE /\ currentProject' = req.pkg
       /\ projects' = ReplaceOrInsert(projects, req.pkg)
       /\ projectState' = transition(projectState, "restoreSnapshot")
       /\ UNCHANGED <<undoStack, redoStack>>

\* A timer callback that writes a snapshot whatever the flag says.
autosaveTick_Always(timer) ==
  snapshots' = saveAutoSnapshot(snapshots, timer.project)

\* The timer callback of the autosave effect (lines 569-590)
autosaveTick(timer) ==
  IF timer.hasUnsavedChanges
  THEN snapshots' = saveAutoSnapshot(snapshots, timer.project)
  ELSE UNCHANGED snapshots

\* The condition under which the autosave effect arms a timer (line 568)
timerArmed ==
  rendered.autosaveTimer = "active" /\ rendered.currentProject # NoProject

(***************************************************************************)
(* Steps.  A UI event calls one handler and the store re-renders, so the   *)
(* next event's handlers see the new state.                                *)
(***************************************************************************)
\* The names of the events of the mutators.
TaskMutators == {"addTask", "updateTask", "deleteTask"}
ResourceMutators == {"addResource", "updateResource", "deleteResource"}
CostMutators == {"addCost", "updateCost", "deleteCost"}
RiskMutators == {"addRisk", "updateRisk", "deleteRisk"}
Mutators ==
  TaskMutators \cup ResourceMutators \cup CostMutators \cup RiskMutators

\* The handler of the event gives setCurrentProject an object that is not
\* the one of the last render, whatever its content: updateProject spreads
\* the project (line 623) and the loads build it.
NewObject(op) ==
  \/ op \in Mutators /\ rendered.currentProject # NoProject
  \/ op = "undo" /\ Len(rendered.undoStack) > 0
       /\ rendered.currentProject # NoProject
  \/ op = "redo" /\ Len(rendered.redoStack) > 0
       /\ rendered.currentProject # NoProject
  \/ op \in {"openProjectFile.done", "restoreSnapshot.done"}

\* The dependencies of the autosave effect (line 594) differ between the last
\* render and the one after the event.
DepsChanged(op) ==
  \/ NewObject(op)
  \/ currentProject' # rendered.currentProject
  \/ projectState'.autosaveTimer # rendered.autosaveTimer
  \/ projectState'.hasUnsavedChanges # rendered.hasUnsavedChanges

\* The timers the effect arms for the render after the event.
Armed ==
  IF projectState'.autosaveTimer = "active" /\ currentProject' # NoProject
  THEN {Timer(currentProject', projectState'.hasUnsavedChanges)}
  ELSE {}

\* An autosave effect whose cleanup does not clear the interval.
autosaveEffect_NoCleanup(op) ==
  timers' = IF DepsChanged(op) THEN timers \cup Armed ELSE timers

\* The autosave effect after a render (lines 567-594): when a dependency
\* changed, the cleanup of the last run clears its interval (line 592) and
\* the effect arms a new one.
autosaveEffect(op) ==
  timers' = IF DepsChanged(op) THEN Armed ELSE timers

\* The render after an event: the closures are made anew.
Render ==
  rendered' = Closure(currentProject', projects', undoStack', redoStack',
                      projectState')

\* The event is recorded: the handler called, whether it called pushUndo, and
\* the save state and the depths of the two stacks before it.
Observe(op, pushed) ==
  /\ stepsLeft > 0
  /\ stepsLeft' = stepsLeft - 1
  /\ last' = [op |-> op, pushed |-> pushed, prev |-> projectState,
              undoLen |-> Len(undoStack), redoLen |-> Len(redoStack)]
  /\ Render
  /\ autosaveEffect(op)
  /\ dirtyAge' = IF projectState'.hasUnsavedChanges THEN dirtyAge ELSE 0

\* An event whose handler did not call pushUndo.
Event(op) == Observe(op, FALSE) /\ UNCHANGED probe

\* An event of a task or resource mutator; pushed tells whether it called
\* pushUndo.
EditEvent(op, pushed) == Observe(op, pushed) /\ UNCHANGED probe

\* The mutator finds an entity with the id in the collection it reads.
Found(arr, id) == FindById(arr, id) # NoEntity

\* Ids a caller may give to a new task or resource: not yet in the project.
FreshIds(ids, arr) == ids \ IdsOf(arr)

\* The mount effect has run and the run has events left.
Ready == initialized /\ stepsLeft > 0

\* The mount effect (lines 938-942) calls initializeFromLatestSnapshot
\* (lines 928-935).
Mount ==
  /\ ~initialized
  /\ stepsLeft > 0
  /\ initialized' = TRUE
  /\ IF getLatestSnapshot(snapshots) # NoId
     THEN /\ restoreSnapshotStart(getLatestSnapshot(snapshots))
          /\ UNCHANGED <<storeVars, nextId>>
     ELSE /\ createProject
          /\ UNCHANGED inflight
  /\ UNCHANGED snapshots
  /\ Event("initializeFromLatestSnapshot")

AddTask ==
  /\ Ready
  /\ \E id \in FreshIds(TaskIds, rendered.currentProject.tasks), v \in TaskVals :
       addTask(Entity(id, v))
  /\ UNCHANGED <<nextId, snapshots, inflight, initialized>>
  /\ EditEvent("addTask", rendered.currentProject # NoProject)

UpdateTask ==
  /\ Ready
  /\ \E id \in TaskIds, v \in TaskVals :
       /\ updateTask(Entity(id, v))
       /\ EditEvent("updateTask", Found(rendered.currentProject.tasks, id))
  /\ UNCHANGED <<nextId, snapshots, inflight, initialized>>

DeleteTask ==
  /\ Ready
  /\ \E id \in TaskIds :
       /\ deleteTask(id)
       /\ EditEvent("deleteTask", Found(rendered.currentProject.tasks, id))
  /\ UNCHANGED <<nextId, snapshots, inflight, initialized>>

AddResource ==
  /\ Ready
  /\ \E id \in FreshIds(ResourceIds, rendered.currentProject.resources),
        v \in ResourceVals : addResource(Entity(id, v))
  /\ UNCHANGED <<nextId, snapshots, inflight, initialized>>
  /\ EditEvent("addResource", rendered.currentProject # NoProject)

UpdateResource ==
  /\ Ready
  /\ \E id \in ResourceIds, v \in ResourceVals :
       /\ updateResource(Entity(id, v))
       /\ EditEvent("updateResource",
                    Found(rendered.currentProject.resources, id))
  /\ UNCHANGED <<nextId, snapshots, inflight, initialized>>

DeleteResource ==
  /\ Ready
  /\ \E id \in ResourceIds :
       /\ deleteResource(id)
       /\ EditEvent("deleteResource",
                    Found(rendered.currentProject.resources, id))
  /\ UNCHANGED <<nextId, snapshots, inflight, initialized>>

AddCost ==
  /\ Ready
  /\ \E id \in FreshIds(CostIds, rendered.currentProject.costs) :
       addCost(Entity(id, 0))
  /\ UNCHANGED <<nextId, snapshots, inflight, initialized>>
  /\ Event("addCost")

UpdateCost ==
  /\ Ready
  /\ \E id \in CostIds : updateCost(Entity(id, 1))
  /\ UNCHANGED <<nextId, snapshots, inflight, initialized>>
  /\ Event("updateCost")

DeleteCost ==
  /\ Ready
  /\ \E id \in CostIds : deleteCost(id)
  /\ UNCHANGED <<nextId, snapshots, inflight, initialized>>
  /\ Event("deleteCost")

AddRisk ==
  /\ Ready
  /\ \E id \in FreshIds(RiskIds, rendered.currentProject.risks) :
       addRisk(Entity(id, 0))
  /\ UNCHANGED <<nextId, snapshots, inflight, initialized>>
  /\ Event("addRisk")

UpdateRisk ==
  /\ Ready
  /\ \E id \in RiskIds : updateRisk(Entity(id, 1))
  /\ UNCHANGED <<nextId, snapshots, inflight, initialized>>
  /\ Event("updateRisk")

DeleteRisk ==
  /\ Ready
  /\ \E id \in RiskIds : deleteRisk(id)
  /\ UNCHANGED <<nextId, snapshots, inflight, initialized>>
  /\ Event("deleteRisk")

CreateProject ==
  /\ Ready
  /\ nextId <= MaxProjects
  /\ createProject
  /\ UNCHANGED <<snapshots, inflight, initialized>>
  /\ Event("createProject")

DeleteProject ==
  /\ Ready
  /\ \E i \in DOMAIN rendered.projects :
       /\ Len(FilterOutProject(rendered.projects, rendered.projects[i].id)) = 0
            => nextId <= MaxProjects
       /\ deleteProject(rendered.projects[i].id)
  /\ UNCHANGED <<snapshots, inflight, initialized>>
  /\ Event("deleteProject")

\* A switch of the active project that also resets the history.
SetCurrentProject_ResetsHistory ==
  /\ Ready
  /\ \E i \in DOMAIN rendered.projects :
       currentProject' = rendered.projects[i]
  /\ undoStack' = <<>>
  /\ redoStack' = <<>>
  /\ UNCHANGED <<projects, projectState>>
  /\ UNCHANGED <<nextId, snapshots, inflight, initialized>>
  /\ Event("setCurrentProject")

\* setCurrentProject, the setter of the state cell (line 554), called by a
\* consumer of the context with a project of the list.
SetCurrentProject ==
  /\ Ready
  /\ \E i \in DOMAIN rendered.projects :
       currentProject' = rendered.projects[i]
  /\ UNCHANGED <<projects, undoStack, redoStack, projectState>>
  /\ UNCHANGED <<nextId, snapshots, inflight, initialized>>
  /\ Event("setCurrentProject")

SaveProject ==
  /\ Ready
  /\ saveProject
  /\ UNCHANGED <<nextId, inflight, initialized>>
  /\ Event("saveProject")

\* pushUndo called by a consumer of the context (line 1115)
PushUndo ==
  /\ Ready
  /\ \E id \in TaskIds :
       pushUndo(UndoItem("add-task", id, NoEntity, Entity(id, 0)))
  /\ UNCHANGED <<projects, currentProject, projectState>>
  /\ UNCHANGED <<nextId, snapshots, inflight, initialized>>
  /\ EditEvent("pushUndo", TRUE)

Undo ==
  /\ Ready
  /\ undo
  /\ UNCHANGED <<nextId, snapshots, inflight, initialized>>
  /\ Event("undo")

Redo ==
  /\ Ready
  /\ redo
  /\ UNCHANGED <<nextId, snapshots, inflight, initialized>>
  /\ Event("redo")

ExportProjectFile ==
  /\ Ready
  /\ Len(inflight) < MaxInflight
  /\ exportProjectFileStart
  /\ UNCHANGED <<storeVars, nextId, snapshots, initialized>>
  /\ Event("exportProjectFile")

OpenProjectFile ==
  /\ Ready
  /\ Len(inflight) < MaxInflight
  /\ \E pkg \in FileProjects \cup {NoProject} : openProjectFileStart(pkg)
  /\ UNCHANGED <<storeVars, nextId, snapshots, initialized>>
  /\ Event("openProjectFile")

RestoreSnapshot ==
  /\ Ready
  /\ Len(inflight) < MaxInflight
  /\ \E name \in ProjectIds : restoreSnapshotStart(name)
  /\ UNCHANGED <<storeVars, nextId, snapshots, initialized>>
  /\ Event("restoreSnapshot")

\* The backend answers a request and the handler that awaits it goes on; a
\* rejected promise (a failed file load or write) ends the handler.
Complete ==
  /\ stepsLeft > 0
  /\ \E i \in DOMAIN inflight :
       LET req == inflight[i]
       IN /\ inflight' = RemoveAt(inflight, i)
          /\ \/ /\ req.kind = "export"
                /\ \/ exportProjectFileDone(req)
                      /\ Event("exportProjectFile.done")
                   \/ UNCHANGED storeVars
                      /\ Event("exportProjectFile.failed")
             \/ /\ req.kind = "open"
                /\ IF req.pkg = NoProject
                   THEN UNCHANGED storeVars /\ Event("openProjectFile.failed")
                   ELSE openProjectFileDone(req)
                        /\ Event("openProjectFile.done")
             \/ /\ req.kind = "restore"
                /\ restoreSnapshotDone(req)
                /\ IF req.pkg = NoProject
                   THEN Event("restoreSnapshot.notfound")
                   ELSE Event("restoreSnapshot.done")
          /\ UNCHANGED <<nextId, snapshots, initialized>>

Autosave ==
  /\ stepsLeft > 0
  /\ \E timer \in timers : autosaveTick(timer)
  /\ UNCHANGED <<storeVars, nextId, inflight, initialized>>
  /\ Event("autosave")

Next ==
  \/ Mount
  \/ AddTask \/ UpdateTask \/ DeleteTask
  \/ AddResource \/ UpdateResource \/ DeleteResource
  \/ AddCost \/ UpdateCost \/ DeleteCost
  \/ AddRisk \/ UpdateRisk \/ DeleteRisk
  \/ CreateProject \/ DeleteProject \/ SetCurrentProject
  \/ SaveProject \/ PushUndo \/ Undo \/ Redo
  \/ ExportProjectFile \/ OpenProjectFile \/ RestoreSnapshot \/ Complete
  \/ Autosave

Spec == Init /\ [][Next]_vars

(***************************************************************************)
(* The undo/redo round trip: edits of tasks and resources, then undo() N   *)
(* times, then redo() N times.  probe remembers the collections before the *)
(* first undo and counts the calls.                                        *)
(***************************************************************************)
EntitySet(arr) == {arr[i] : i \in DOMAIN arr}

RoundTripEdit ==
  /\ probe.phase = "edit"
  /\ \/ AddTask \/ UpdateTask \/ DeleteTask
     \/ AddResource \/ UpdateResource \/ DeleteResource

RoundTripUndo ==
  /\ Ready
  /\ probe.phase \in {"edit", "undo"}
  /\ Len(rendered.undoStack) > 0
  /\ undo
  /\ UNCHANGED <<nextId, snapshots, inflight, initialized>>
  /\ Observe("undo", FALSE)
  /\ probe' = IF probe.phase = "edit"
              THEN [phase |-> "undo",
                    tasks |-> EntitySet(currentProject.tasks),
                    resources |-> EntitySet(currentProject.resources),
                    undos |-> 1, redos |-> 0]
              ELSE [probe EXCEPT !.undos = @ + 1]

RoundTripRedo ==
  /\ Ready
  /\ probe.phase \in {"undo", "redo"}
  /\ probe.redos < probe.undos
  /\ redo
  /\ UNCHANGED <<nextId, snapshots, inflight, initialized>>
  /\ Observe("redo", FALSE)
  /\ probe' = [probe EXCEPT !.phase = "redo", !.redos = @ + 1]

InitRoundTrip == InitStore /\ stepsLeft = MaxRoundTripSteps

NextRoundTrip == Mount \/ RoundTripEdit \/ RoundTripUndo \/ RoundTripRedo

SpecRoundTrip == InitRoundTrip /\ [][NextRoundTrip]_vars

RoundTripDone == probe.phase = "redo" /\ probe.redos = probe.undos

\* C1: undo() N times and then redo() N times leaves the task and resource
\* collections of the active project equal, by ids and field values, to what
\* they were before the first undo.
C1_UndoRedoRoundTrip ==
  RoundTripDone =>
    /\ EntitySet(currentProject.tasks) = probe.tasks
    /\ EntitySet(currentProject.resources) = probe.resources

(***************************************************************************)
(* Properties.                                                             *)
(***************************************************************************)
Last(seq) == seq[Len(seq)]


\* The last event was an undo() or a redo() that replayed an item.
Replayed ==
  \/ last.op = "undo" /\ last.undoLen > 0
  \/ last.op = "redo" /\ last.redoLen > 0

\* C2: a pushUndo on a full undo stack evicts the oldest entry: the stack is
\* then the previous entries but the first, in order, and the new item.
C2_FifoEviction ==
  [][(last'.pushed /\ Len(undoStack) = UndoCap)
       => undoStack' = Append(Tail(undoStack), Last(undoStack'))]_vars

\* C3: the undo stack never holds more entries than the cap.
C3_UndoStackBounded == Len(undoStack) <= UndoCap

\* A redo() that replayed an item has put it back on a stack that is full now.
C3_Witness ==
  /\ last.op = "redo"
  /\ last.redoLen > 0
  /\ Len(undoStack) = UndoCap

\* C4: every pushUndo call leaves the redo stack empty, and a redo() right
\* after it changes nothing.
C4_PushClearsRedo ==
  /\ [](last.pushed => redoStack = <<>>)
  /\ [][(last.pushed /\ last'.op = "redo") => UNCHANGED storeVars]_vars

\* An edit after an undo(): the redo stack held an item and is empty now.
C4_Witness ==
  /\ last.pushed
  /\ last.op \in TaskMutators \cup ResourceMutators
  /\ last.redoLen > 0
  /\ redoStack = <<>>

\* C5: after a task mutation and after an undo or redo step the progress of
\* the active project is calculateProjectProgress of its tasks.
C5_ProgressFresh ==
  (last.op \in TaskMutators \/ Replayed)
    => currentProject.progress
         = calculateProjectProgress(currentProject.tasks)

\* A task mutation or a replay after which the progress is not 0.
C5_Witness ==
  /\ last.op \in TaskMutators \/ Replayed
  /\ currentProject.progress > 0
  /\ Len(currentProject.tasks) > 0

\* C6: createProject makes the new project active, the save state UNTITLED
\* with hasUnsavedChanges false and isUntitled true, and both stacks empty.
C6_CreateProject ==
  last.op = "createProject"
    => /\ currentProject = createEmptyProject(nextId - 1)
       /\ Last(projects) = currentProject
       /\ projectState.currentState = "UNTITLED"
       /\ projectState.hasUnsavedChanges = FALSE
       /\ projectState.isUntitled = TRUE
       /\ undoStack = <<>>
       /\ redoStack = <<>>

\* createProject called on a project with unsaved edits and undo history.
C6_Witness ==
  /\ last.op = "createProject"
  /\ last.prev.currentState = "DIRTY"
  /\ last.undoLen > 0

\* C7: a task, resource, cost or risk mutation ends in DIRTY with
\* hasUnsavedChanges true and leaves isUntitled as it was.
C7_EditDirties ==
  last.op \in Mutators
    => /\ projectState.currentState = "DIRTY"
       /\ projectState.hasUnsavedChanges = TRUE
       /\ projectState.isUntitled = last.prev.isUntitled

\* A cost or risk mutation of a saved project.
C7_Witness ==
  /\ last.op \in CostMutators \cup RiskMutators
  /\ last.prev.currentState = "SAVED"
  /\ projectState.isUntitled = FALSE

\* C8: saveProject ends in SAVED with hasUnsavedChanges and isUntitled false
\* and both stacks empty, and an undo() right after it changes nothing.
C8_SaveResetsHistory ==
  /\ [](last.op = "saveProject"
          => /\ projectState.currentState = "SAVED"
             /\ projectState.hasUnsavedChanges = FALSE
             /\ projectState.isUntitled = FALSE
             /\ undoStack = <<>>
             /\ redoStack = <<>>)
  /\ [][(last.op = "saveProject" /\ last'.op = "undo")
          => UNCHANGED storeVars]_vars

\* saveProject called on a project with unsaved edits and undo history.
C8_Witness ==
  /\ last.op = "saveProject"
  /\ last.prev.currentState = "DIRTY"
  /\ last.undoLen > 0

SavingEvents == {"saveProject", "exportProjectFile.done",
                 "openProjectFile.done", "restoreSnapshot.done"}

\* C9: DIRTY implies hasUnsavedChanges, and right after a transition into
\* SAVED hasUnsavedChanges is false.
C9_UnsavedFlag ==
  /\ projectState.currentState = "DIRTY" => projectState.hasUnsavedChanges
  /\ last.op \in SavingEvents
       => /\ projectState.currentState = "SAVED"
          /\ projectState.hasUnsavedChanges = FALSE

\* A snapshot restored over a project with unsaved edits.
C9_Witness ==
  /\ last.op = "restoreSnapshot.done"
  /\ last.prev.currentState = "DIRTY"
  /\ last.prev.hasUnsavedChanges

\* C10: an undo() or redo() that replays an item ends in DIRTY with
\* hasUnsavedChanges true.
C10_ReplayDirties ==
  Replayed
    => /\ projectState.currentState = "DIRTY"
       /\ projectState.hasUnsavedChanges = TRUE

\* An undo() that replayed an item of a project that was SAVED.
C10_Witness ==
  /\ last.op = "undo"
  /\ last.undoLen > 0
  /\ last.prev.currentState = "SAVED"

\* The collection an undo item is about, and entities taken out of or
\* replaced in a collection.
IsTaskItem(item) ==
  item.type \in {"add-task", "update-task", "delete-task"}

Coll(project, item) ==
  IF IsTaskItem(item) THEN project.tasks ELSE project.resources

Without(arr, id) == SelectSeq(arr, LAMBDA e : e.id # id)

With(arr, id, entity) ==
  [i \in DOMAIN arr |-> IF arr[i].id = id THEN entity ELSE arr[i]]

\* after is before with the item undone.
Undone(item, before, after) ==
  CASE item.type \in {"add-task", "add-resource"} ->
         Coll(after, item) = Without(Coll(before, item), item.targetId)
    [] item.type \in {"update-task", "update-resource"} ->
         Coll(after, item)
           = With(Coll(before, item), item.targetId, item.beforeState)
    [] item.type \in {"delete-task", "delete-resource"} ->
         Coll(after, item) = Coll(before, item) \o <<item.beforeState>>

\* after is before with the item done again.
Redone(item, before, after) ==
  CASE item.type \in {"add-task", "add-resource"} ->
         Coll(after, item) = Coll(before, item) \o <<item.afterState>>
    [] item.type \in {"update-task", "update-resource"} ->
         Coll(after, item)
           = With(Coll(before, item), item.targetId, item.afterState)
    [] item.type \in {"delete-task", "delete-resource"} ->
         Coll(after, item) = Without(Coll(before, item), item.targetId)

\* C11: undo() on a non-empty undo stack removes the most recent item from
\* the undo stack, appends it to the redo stack and applies its inverse to
\* the active project (add: remove by targetId, update: replace by
\* beforeState, delete: re-append beforeState); redo() is the mirror image.
C11_UndoRedoInverse ==
  [][/\ (last'.op = "undo" /\ Len(undoStack) > 0)
          => /\ undoStack' = SubSeq(undoStack, 1, Len(undoStack) - 1)
             /\ redoStack' = redoStack \o <<Last(undoStack)>>
             /\ Undone(Last(undoStack), currentProject, currentProject')
     /\ (last'.op = "redo" /\ Len(redoStack) > 0)
          => /\ redoStack' = SubSeq(redoStack, 1, Len(redoStack) - 1)
             /\ undoStack' = undoStack \o <<Last(redoStack)>>
             /\ Redone(Last(redoStack), currentProject, currentProject')]_vars

\* The example: an empty project, addTask(T1), addTask(T2 completed), undo(),
\* redo(): the tasks are T1 and T2 again, the progress 50 and the redo stack
\* is empty.
C11_Witness ==
  /\ last.op = "redo"
  /\ last.redoLen = 1
  /\ currentProject
       = [createEmptyProject(1) EXCEPT
            !.tasks = <<Entity(1, 0), Entity(2, 100)>>, !.progress = 50]
  /\ Len(undoStack) = 2
  /\ redoStack = <<>>

\* C12: undo() on an empty undo stack and redo() on an empty redo stack
\* change nothing: the active project, the projects list, both stacks and
\* the save state stay as they were.
C12_EmptyStackNoOp ==
  [][/\ (last'.op = "undo" /\ Len(undoStack) = 0) => UNCHANGED storeVars
     /\ (last'.op = "redo" /\ Len(redoStack) = 0)
          => UNCHANGED storeVars]_vars

\* undo() or redo() called on a saved project, whose stacks are both empty.
C12_Witness ==
  /\ last.op \in {"undo", "redo"}
  /\ last.undoLen = 0
  /\ last.redoLen = 0
  /\ last.prev.currentState = "SAVED"
  /\ projectState.currentState = "SAVED"

\* C13: an autosave timer firing writes a snapshot only if hasUnsavedChanges
\* is true, and it never changes the save state: currentState is not moved
\* to SAVED and hasUnsavedChanges stays as it was.
C13_AutosaveSilent ==
  [][last'.op = "autosave"
       => /\ projectState' = projectState
          /\ ~projectState.hasUnsavedChanges => snapshots' = snapshots
          /\ projectState.hasUnsavedChanges
               => /\ projectState'.hasUnsavedChanges
                  /\ projectState'.currentState # "SAVED"]_vars

\* The timer fired on a project with unsaved edits: the snapshot is written
\* and the state is still DIRTY.
C13_Witness ==
  /\ last.op = "autosave"
  /\ last.prev.hasUnsavedChanges
  /\ snapshots.byName[currentProject.id] = currentProject
  /\ projectState.currentState = "DIRTY"
  /\ projectState.hasUnsavedChanges

\* C14: a restoreSnapshot whose load returns null and an openProjectFile
\* whose file load fails leave the active project, the projects list, the
\* save state and both stacks as they were.
C14_FailedLoadNoOp ==
  [][last'.op \in {"restoreSnapshot.notfound", "openProjectFile.failed"}
       => UNCHANGED storeVars]_vars

\* A restore of a missing snapshot answered on a project with unsaved edits
\* and undo history.
C14_Witness ==
  /\ last.op = "restoreSnapshot.notfound"
  /\ last.prev.currentState = "DIRTY"
  /\ last.undoLen > 0
  /\ Len(undoStack) > 0

\* The number of entries of the list that carry the id.
CountId(arr, id) == Cardinality({j \in DOMAIN arr : arr[j].id = id})

\* The projects of the list with another id.
Others(arr, id) == {arr[j] : j \in {k \in DOMAIN arr : arr[k].id # id}}

\* The request of the kind that the step answers carried the project that
\* is active after the step, and the list holds that project exactly once
\* and the projects with other ids as before.
Loaded(kind) ==
  \E i \in DOMAIN inflight :
    /\ inflight[i].kind = kind
    /\ inflight' = RemoveAt(inflight, i)
    /\ inflight[i].pkg # NoProject
    /\ currentProject' = inflight[i].pkg
    /\ CountId(projects', inflight[i].pkg.id) = 1
    /\ \E j \in DOMAIN projects' : projects'[j] = inflight[i].pkg
    /\ Others(projects', inflight[i].pkg.id)
         = Others(projects, inflight[i].pkg.id)

\* C15: a successful restoreSnapshot makes the loaded project the active
\* one, leaves exactly one entry with its id in the projects list, and ends
\* in SAVED with hasUnsavedChanges false, isUntitled false and openedFrom
\* snapshot.
C15_RestoreSnapshot ==
  [][last'.op = "restoreSnapshot.done"
       => /\ Loaded("restore")
          /\ projectState'.currentState = "SAVED"
          /\ projectState'.hasUnsavedChanges = FALSE
          /\ projectState'.isUntitled = FALSE
          /\ projectState'.openedFrom = "snapshot"]_vars

\* The snapshot of the sample project restored over the sample project: the
\* entry with its id has been replaced.
C15_Witness ==
  /\ last.op = "restoreSnapshot.done"
  /\ currentProject = OldSnapshot
  /\ projects = <<OldSnapshot>>
  /\ projectState.openedFrom = "snapshot"

\* C16: a successful exportProjectFile and a successful openProjectFile end
\* in SAVED with hasUnsavedChanges false; after openProjectFile the loaded
\* project is the active one and the list holds one entry with its id.
C16_FileOpsSave ==
  [][/\ last'.op \in {"exportProjectFile.done", "openProjectFile.done"}
          => /\ projectState'.currentState = "SAVED"
             /\ projectState'.hasUnsavedChanges = FALSE
     /\ last'.op = "openProjectFile.done" => Loaded("open")]_vars

\* A file opened over a project with unsaved edits.
C16_Witness ==
  /\ last.op = "openProjectFile.done"
  /\ last.prev.currentState = "DIRTY"
  /\ currentProject \in FileProjects
  /\ CountId(projects, currentProject.id) = 1

\* C17: the initialization at startup runs once and ends with the most
\* recent snapshot's project active, or, when no snapshot can be loaded (none
\* exists, or the load of the latest one returns null), with a newly created
\* empty project active in state UNTITLED.
C17_InitOutcome ==
  [][/\ last'.op = "initializeFromLatestSnapshot" => ~initialized
     /\ (last'.op = "initializeFromLatestSnapshot"
          /\ getLatestSnapshot(snapshots) = NoId)
          \/ (last.op = "initializeFromLatestSnapshot"
              /\ last'.op = "restoreSnapshot.notfound")
          => /\ currentProject' = createEmptyProject(nextId' - 1)
             /\ nextId' = nextId + 1
             /\ projectState'.currentState = "UNTITLED"
     /\ (last.op = "initializeFromLatestSnapshot"
          /\ last'.op = "restoreSnapshot.done")
          => currentProject'
               = loadSnapshot(snapshots, getLatestSnapshot(snapshots))]_vars

(***************************************************************************)
(* The handlers with a null check, called on a store that has no active    *)
(* project.  No handler of the store sets currentProject to null, so the   *)
(* store is taken as a consumer of the context may have left it: the       *)
(* active project null, and projects, stacks and save state of an earlier  *)
(* session of edits.                                                       *)
(***************************************************************************)
SomeItem == UndoItem("add-task", 1, NoEntity, Entity(1, 0))

InitNoProject ==
  /\ currentProject = NoProject
  /\ projects \in {<<>>, <<sampleProject>>}
  /\ undoStack \in {<<>>, <<SomeItem>>}
  /\ redoStack \in {<<>>, <<SomeItem>>}
  /\ projectState \in {InitialProjectState,
                       transition(InitialProjectState, "edit"),
                       transition(InitialProjectState, "save")}
  /\ nextId = 1
  /\ snapshots \in {NoSnapshots, saveAutoSnapshot(NoSnapshots, OldSnapshot)}
  /\ inflight = <<>>
  /\ initialized = TRUE
  /\ rendered = Closure(currentProject, projects, undoStack, redoStack,
                        projectState)
  /\ last = [op |-> "construct", pushed |-> FALSE, prev |-> projectState,
             undoLen |-> Len(undoStack), redoLen |-> Len(redoStack)]
  /\ probe = NoProbe
  /\ timers = {}
  /\ dirtyAge = 0
  /\ stepsLeft = MaxSteps

NextNoProject ==
  \/ AddTask \/ UpdateTask \/ DeleteTask
  \/ AddResource \/ UpdateResource \/ DeleteResource
  \/ AddCost \/ UpdateCost \/ DeleteCost
  \/ AddRisk \/ UpdateRisk \/ DeleteRisk
  \/ SaveProject \/ ExportProjectFile \/ Undo \/ Redo

SpecNoProject == InitNoProject /\ [][NextNoProject]_vars

\* C18: with no active project every mutator of tasks, resources, costs and
\* risks, and saveProject, exportProjectFile, undo and redo change nothing:
\* projects, the save state and both stacks stay as they were, nothing is
\* written to the backend and no request is sent to it.
C18_NoProjectNoOp ==
  [][(currentProject = NoProject
       /\ last'.op \in Mutators \cup {"saveProject", "exportProjectFile",
                                       "undo", "redo"})
       => UNCHANGED <<storeVars, snapshots, inflight>>]_vars

\* saveProject called without an active project on a store with unsaved
\* edits and undo history.
C18_Witness ==
  /\ last.op = "saveProject"
  /\ currentProject = NoProject
  /\ projectState.currentState = "DIRTY"
  /\ Len(undoStack) > 0
  /\ snapshots = NoSnapshots

\* C19: in every reachable state the active project is null or an element
\* of the projects list, with the same id and the same content.
C19_CurrentInProjects ==
  currentProject = NoProject
    \/ \E i \in DOMAIN projects : projects[i] = currentProject

\* The active project was deleted while other projects remained: one of
\* them is active now.
C19_Witness ==
  /\ last.op = "deleteProject"
  /\ Len(projects) > 0
  /\ nextId > 1
  /\ currentProject.id = SampleId
  /\ CountId(projects, 1) = 0
  /\ \E i \in DOMAIN projects : projects[i] = currentProject

\* C20: setCurrentProject changes the active project only: the projects
\* list with the content of every project, the save state and both stacks
\* are unchanged by the call.
C20_SwitchFrame ==
  [][last'.op = "setCurrentProject"
       => /\ UNCHANGED <<projects, projectState, undoStack, redoStack>>
          /\ \E i \in DOMAIN projects : currentProject' = projects[i]]_vars

\* The sample project made active after edits to the project created at
\* startup: the edits, the undo history and the DIRTY state are still there.
C20_Witness ==
  /\ last.op = "setCurrentProject"
  /\ Len(projects) = 2
  /\ currentProject = sampleProject
  /\ projects[2].id = 1
  /\ projects[2].tasks # <<>>
  /\ Len(undoStack) > 0
  /\ projectState.currentState = "DIRTY"

\* The step leaves both stacks and the entities of the active project as
\* they were.
SameHistory == undoStack' = undoStack /\ redoStack' = redoStack

SameEntities ==
  /\ currentProject'.id = currentProject.id
  /\ currentProject'.tasks = currentProject.tasks
  /\ currentProject'.resources = currentProject.resources
  /\ currentProject'.costs = currentProject.costs
  /\ currentProject'.risks = currentProject.risks

DirtyAfter ==
  /\ projectState'.currentState = "DIRTY"
  /\ projectState'.hasUnsavedChanges = TRUE

\* C21: updateTask, deleteTask, updateResource and deleteResource called
\* with an id that matches no entity of the active project push no undo
\* item, leave both stacks and the collection unchanged, and still move the
\* save state to DIRTY with hasUnsavedChanges true.
C21_UnmatchedStillDirty ==
  [][/\ \A id \in TaskIds, v \in TaskVals :
          (last'.op = "updateTask" /\ ~Found(currentProject.tasks, id)
             /\ updateTask(Entity(id, v)))
            => SameHistory /\ SameEntities /\ DirtyAfter
     /\ \A id \in TaskIds :
          (last'.op = "deleteTask" /\ ~Found(currentProject.tasks, id)
             /\ deleteTask(id))
            => SameHistory /\ SameEntities /\ DirtyAfter
     /\ \A id \in ResourceIds, v \in ResourceVals :
          (last'.op = "updateResource"
             /\ ~Found(currentProject.resources, id)
             /\ updateResource(Entity(id, v)))
            => SameHistory /\ SameEntities /\ DirtyAfter
     /\ \A id \in ResourceIds :
          (last'.op = "deleteResource"
             /\ ~Found(currentProject.resources, id)
             /\ deleteResource(id))
            => SameHistory /\ SameEntities /\ DirtyAfter]_vars

\* deleteTask with an id of no task, called on a saved project: no item was
\* pushed and the state is DIRTY.
C21_Witness ==
  /\ last.op = "deleteTask"
  /\ ~last.pushed
  /\ last.prev.currentState = "SAVED"
  /\ projectState.currentState = "DIRTY"
  /\ Len(undoStack) = last.undoLen

\* The step is a deleteTask or a deleteResource with an id that matches no
\* entity of the active project.
UnmatchedDelete ==
  \/ \E id \in TaskIds :
       /\ last'.op = "deleteTask"
       /\ ~Found(currentProject.tasks, id)
       /\ deleteTask(id)
  \/ \E id \in ResourceIds :
       /\ last'.op = "deleteResource"
       /\ ~Found(currentProject.resources, id)
       /\ deleteResource(id)

\* C22 as stated: deleteTask and deleteResource called with an id that
\* matches no entity do not trigger the edit transition and mutate nothing:
\* the save state and the active project are the same after the call.
C22_UnmatchedDeleteNoEdit ==
  [][UnmatchedDelete
       => projectState' = projectState /\ currentProject' = currentProject]_vars

\* C22, amended: deleteTask and deleteResource called with an id that
\* matches no entity keep the entities of the active project and do trigger
\* the edit transition: the save state after the call is DIRTY with
\* hasUnsavedChanges true, also from SAVED and UNTITLED, and isUntitled and
\* openedFrom are kept.
C22_UnmatchedDeleteEdits ==
  [][UnmatchedDelete
       => /\ SameEntities
          /\ projectState'.currentState = "DIRTY"
          /\ projectState'.hasUnsavedChanges = TRUE
          /\ projectState'.isUntitled = projectState.isUntitled
          /\ projectState'.openedFrom = projectState.openedFrom]_vars

\* deleteResource with an id of no resource, called on an untitled project
\* without edits: the state is DIRTY.
C22_Witness ==
  /\ last.op = "deleteResource"
  /\ ~last.pushed
  /\ last.prev.currentState = "UNTITLED"
  /\ projectState.currentState = "DIRTY"
  /\ projectState.isUntitled

\* C23: the cost and risk mutators leave both stacks unchanged, so a pending
\* redo stays replayable, and move the save state to DIRTY; undo() and
\* redo() never change the costs or the risks of the active project.
C23_CostRiskOutsideHistory ==
  [][/\ last'.op \in CostMutators \cup RiskMutators
          => SameHistory /\ DirtyAfter
     /\ last'.op \in {"undo", "redo"}
          => /\ currentProject'.costs = currentProject.costs
             /\ currentProject'.risks = currentProject.risks]_vars

\* A project with a cost, after an undo() and the redo() of a task edit: the
\* redo replayed the item and the cost is still there.
C23_Witness ==
  /\ last.op = "redo"
  /\ last.redoLen > 0
  /\ Len(redoStack) = last.redoLen - 1
  /\ currentProject.costs # <<>>
  /\ currentProject.tasks # <<>>
  /\ currentProject.id = 1

\* C24: at most one autosave timer is armed, one is armed exactly when
\* autosaveTimer is active and a project is active, its callback holds the
\* project that is active and the current flag, and a firing that writes
\* writes the snapshot of the project active at that moment.
C24_OneFreshTimer ==
  /\ [](/\ Cardinality(timers) <= 1
        /\ timers # {} <=> (projectState.autosaveTimer = "active"
                              /\ currentProject # NoProject)
        /\ \A timer \in timers :
             /\ timer.project = currentProject
             /\ timer.hasUnsavedChanges = projectState.hasUnsavedChanges)
  /\ [][(last'.op = "autosave" /\ snapshots' # snapshots)
          => snapshots' = saveAutoSnapshot(snapshots, currentProject)]_vars

\* The timer fired after the project created at startup replaced the sample
\* project and was edited: the snapshot written is the edited project's.
C24_Witness ==
  /\ last.op = "autosave"
  /\ currentProject.id = 1
  /\ currentProject.tasks # <<>>
  /\ snapshots.latest = 1
  /\ snapshots.byName[1] = currentProject
  /\ Cardinality(timers) = 1

(***************************************************************************)
(* Autosave with time.  The clock advances in ticks; an armed timer fires  *)
(* when its interval has run out, and is then due again a full interval    *)
(* later (setInterval).  An effect run after a change of a dependency arms *)
(* the new timer with a full interval.                                     *)
(***************************************************************************)
\* One unit of time passes; a timer that is due fires first.
Tick ==
  /\ Ready
  /\ \A timer \in timers : timer.due > 0
  /\ timers' = {[timer EXCEPT !.due = @ - 1] : timer \in timers}
  /\ dirtyAge' = IF projectState.hasUnsavedChanges THEN dirtyAge + 1 ELSE 0
  /\ stepsLeft' = stepsLeft - 1
  /\ last' = [op |-> "tick", pushed |-> FALSE, prev |-> projectState,
              undoLen |-> Len(undoStack), redoLen |-> Len(redoStack)]
  /\ UNCHANGED <<storeVars, nextId, snapshots, inflight, initialized,
                 rendered, probe>>

\* The interval of an armed timer has run out: its callback runs (lines
\* 569-590) and the timer is due again after another interval.
AutosaveDue ==
  /\ Ready
  /\ \E timer \in timers :
       /\ timer.due = 0
       /\ autosaveTick(timer)
       /\ timers' = (timers \ {timer})
                      \cup {[timer EXCEPT !.due = AutosaveInterval]}
       /\ dirtyAge' = IF timer.hasUnsavedChanges THEN 0 ELSE dirtyAge
  /\ stepsLeft' = stepsLeft - 1
  /\ last' = [op |-> "autosave", pushed |-> FALSE, prev |-> projectState,
              undoLen |-> Len(undoStack), redoLen |-> Len(redoStack)]
  /\ UNCHANGED <<storeVars, nextId, inflight, initialized, rendered, probe>>

InitAutosave == InitStore /\ stepsLeft = MaxTimedSteps

NextAutosave ==
  \/ Mount
  \/ AddTask \/ UpdateTask \/ DeleteTask
  \/ SaveProject
  \/ Tick \/ AutosaveDue

SpecAutosave == InitAutosave /\ [][NextAutosave]_vars

\* C25: with autosave active, a snapshot of the active project is written
\* within one autosave interval of the project becoming dirty, also when
\* the user keeps editing: the unsaved changes never get older than the
\* interval without a snapshot.
C25_AutosaveWithinInterval == dirtyAge <= AutosaveInterval

\* The request of the kind that the step answers carried the content the
\* active project has after the step.
AnsweredWithActive(kind) ==
  \E i \in DOMAIN inflight :
    /\ inflight[i].kind = kind
    /\ inflight' = RemoveAt(inflight, i)
    /\ currentProject' = inflight[i].pkg

\* C26: whenever the save state is SAVED the content of the active project
\* is the content last saved, exported or loaded: every step into SAVED
\* leaves the active project with the content that step saved, exported or
\* loaded (an edit made while the backend was awaited included), and no
\* other step changes the active project while the state stays SAVED.
C26_SavedMeansPersisted ==
  [][/\ (last'.op = "saveProject" /\ projectState'.currentState = "SAVED")
          => loadSnapshot(snapshots', currentProject'.id) = currentProject'
     /\ last'.op = "exportProjectFile.done" => AnsweredWithActive("export")
     /\ last'.op = "openProjectFile.done" => AnsweredWithActive("open")
     /\ last'.op = "restoreSnapshot.done" => AnsweredWithActive("restore")
     /\ (projectState.currentState = "SAVED"
          /\ projectState'.currentState = "SAVED"
          /\ last'.op \notin SavingEvents)
          => currentProject' = currentProject]_vars

\* C27: the items on the two stacks record operations on the project that
\* is active: a step that makes another project active, or that replaces
\* the active project by a loaded one, leaves no item on either stack for
\* undo() or redo() to replay against the new project.
C27_HistoryOfActiveProject ==
  [][(currentProject'.id # currentProject.id
        \/ last'.op \in {"openProjectFile.done", "restoreSnapshot.done"})
       => undoStack' = <<>> /\ redoStack' = <<>>]_vars

(***************************************************************************)
(* The store under the operations that keep one project active: the        *)
(* mutators with fresh ids for added entities, undo, redo, save, export    *)
(* and the loads.  No project is created, deleted or switched to, and no   *)
(* consumer pushes undo items of its own.                                  *)
(***************************************************************************)
NextUnique ==
  \/ Mount
  \/ AddTask \/ UpdateTask \/ DeleteTask
  \/ AddResource \/ UpdateResource \/ DeleteResource
  \/ AddCost \/ UpdateCost \/ DeleteCost
  \/ AddRisk \/ UpdateRisk \/ DeleteRisk
  \/ SaveProject \/ Undo \/ Redo
  \/ ExportProjectFile \/ OpenProjectFile \/ RestoreSnapshot \/ Complete

SpecUnique == Init /\ [][NextUnique]_vars

\* No two entities of the collection have the same id.
UniqueIds(arr) == Cardinality(IdsOf(arr)) = Len(arr)

\* C28: with entities added under ids not present in the active project,
\* the task ids and the resource ids of the active project stay unique
\* after any sequence of mutators, undo, redo, save, restoreSnapshot and
\* openProjectFile.
C28_UniqueIds ==
  /\ UniqueIds(currentProject.tasks)
  /\ UniqueIds(currentProject.resources)

(***************************************************************************)
(* Several handler calls in one UI event.  The store re-renders after the  *)
(* event, not after each call: the calls of one event all read the closure *)
(* of the last render, plain setters overwrite each other and functional   *)
(* updaters are applied one after the other.                               *)
(***************************************************************************)
\* A handler call that is not followed by a render yet.
Call(op, pushed) ==
  /\ stepsLeft > 0
  /\ stepsLeft' = stepsLeft - 1
  /\ last' = [op |-> op, pushed |-> pushed, prev |-> projectState,
              undoLen |-> Len(undoStack), redoLen |-> Len(redoStack)]
  /\ UNCHANGED <<rendered, timers, dirtyAge, probe>>

\* addTask with an id the caller has not used: neither in the project of
\* the last render nor in a call of the same event.
BatchAddTask ==
  /\ Ready
  /\ \E id \in FreshIds(FreshIds(TaskIds, rendered.currentProject.tasks),
                         currentProject.tasks), v \in TaskVals :
       addTask(Entity(id, v))
  /\ UNCHANGED <<nextId, snapshots, inflight, initialized>>
  /\ Call("addTask", TRUE)

BatchUndo ==
  /\ Ready
  /\ undo
  /\ UNCHANGED <<nextId, snapshots, inflight, initialized>>
  /\ Call("undo", FALSE)

BatchRedo ==
  /\ Ready
  /\ redo
  /\ UNCHANGED <<nextId, snapshots, inflight, initialized>>
  /\ Call("redo", FALSE)

\* The event is over: the store re-renders with the values of the cells and
\* the effects run.
Flush ==
  /\ Ready
  /\ rendered # Closure(currentProject, projects, undoStack, redoStack,
                        projectState)
  /\ UNCHANGED <<storeVars, nextId, snapshots, inflight, initialized>>
  /\ Render
  /\ autosaveEffect("render")
  /\ last' = [last EXCEPT !.op = "render", !.pushed = FALSE]
  /\ UNCHANGED <<stepsLeft, dirtyAge, probe>>

NextBatch == Mount \/ BatchAddTask \/ BatchUndo \/ BatchRedo \/ Flush

SpecBatch == Init /\ [][NextBatch]_vars

\* C29: no edit is lost when several calls are made before the store has
\* re-rendered: every addTask call adds its task to the tasks the active
\* project has at the call, and every undo() call on a non-empty undo stack
\* moves the item on top of the stack at the call to the redo stack and
\* reverts that item.
C29_NoLostEdit ==
  [][/\ last'.op = "addTask"
          => /\ EntitySet(currentProject.tasks)
                  \subseteq EntitySet(currentProject'.tasks)
             /\ Len(currentProject'.tasks) = Len(currentProject.tasks) + 1
     /\ (last'.op = "undo" /\ Len(undoStack) > 0)
          => /\ redoStack' = redoStack \o <<Last(undoStack)>>
             /\ Undone(Last(undoStack), currentProject, currentProject')]_vars

====
